---- MODULE Spec2Model ----
(***************************************************************************)
(* funcbench environments (src/funcbench/env.go).                          *)
(*                                                                         *)
(* Spec    : construction of a Local or a GitHub (Remote) environment,     *)
(*           statement by statement, followed by calls of the methods of   *)
(*           the Environment interface on the constructed environment.     *)
(* SpecMD  : formatCommentToMD on a bounded set of raw tables, one loop    *)
(*           iteration per step.                                           *)
(***************************************************************************)
EXTENDS Integers, Sequences, FiniteSets, TLC

\* ------------------------------------------------------------------ bounds
\* Number of Environment method calls made on a constructed environment.
MaxOps == 2
\* Number of lines of a raw table handed to formatCommentToMD.
MaxLines == 3

VARIABLES
    pc,          \* position in main/newLocalEnv/newGitHubEnv
    env,         \* the constructor's first result: "nil", "Local" or "GitHub"
    retErr,      \* the constructor's second result
    event,       \* dynamic type of the parsed event
    side,        \* the three side-channel values read so far
    gitLog,      \* clone/fetch/checkout calls made so far, with their results
    apiCalls,    \* Issues.CreateComment calls made so far, with their results
    client,      \* ghClient: "nil" or the gitHubClient record
    fields,      \* the environment struct built so far
    cwd,         \* process working directory (os.Chdir)
    goenv,       \* process environment variables set by os.Setenv
    ref,         \* the ref the working tree is on
    stdout,      \* what Local.PostResults has written
    opCount,     \* method calls made on the constructed environment
    lastOp,      \* the last method call and what it returned
    rawTable,    \* formatCommentToMD: the argument
    tableContent,\* formatCommentToMD: the slice being rewritten
    idx,         \* formatCommentToMD: the loop variable i
    fpc,         \* formatCommentToMD: position
    result       \* formatCommentToMD: the returned string

envVars == <<pc, env, retErr, event, side, gitLog, apiCalls, client, fields, cwd,
             goenv, ref, stdout, opCount, lastOp>>
mdVars  == <<rawTable, tableContent, idx, fpc, result>>
vars    == <<envVars, mdVars>>

\* ------------------------------------------------------------------ errors
\* A Go error value: the innermost cause, the message errors.Wrap/Wrapf put
\* in front of it, and the text of a second error formatted into the message.
NoError == [wrap |-> "", cause |-> "nil", pErr |-> "nil"]

PlainErr(cause) == [wrap |-> "", cause |-> cause, pErr |-> "nil"]

\* errors.Wrap(err, msg)
Wrap(cause, msg) == [wrap |-> msg, cause |-> cause, pErr |-> "nil"]

\* errors.Wrapf(err, "posting a comment for 'checkout' command execution
\* error; postComment err:%v", pErr)
WrapfPosting(cause, pErr) ==
    [wrap |-> "posting a comment for checkout command execution error; postComment err:",
     cause |-> cause,
     pErr |-> pErr]

\* %v of an error made by errors.Wrap: "<msg>: <cause>"
ErrText(e) == <<e.wrap, e.cause>>

\* Results the collaborators can produce.
CloneResults    == {"nil", "ErrRepositoryAlreadyExists", "CloneErr"}
FetchResults    == {"nil", "NoErrAlreadyUpToDate", "FetchErr"}
CheckoutResults == {"nil", "CheckoutErr"}
CommentResults  == {"nil", "CreateCommentErr"}
RaceArguments   == {"-no-race", ""}
ErrTexts        == {"benchmark failed", "compare failed"}

\* The single inbound event of a run.
Owner    == "prometheus"
RepoName == "prometheus"
PRNumber == 7
Sha      == "GITHUB_SHA"

\* ------------------------------------------------------------- strings
\* A Go string is modelled as the sequence of its characters.

\* "old ns/op"
MarkerNs ==
    <<"o", "l", "d", " ", "n", "s", "/", "o", "p">>

\* "old MB/s"
MarkerMB ==
    <<"o", "l", "d", " ", "M", "B", "/", "s">>

\* "old allocs"
MarkerAllocs ==
    <<"o", "l", "d", " ", "a", "l", "l", "o", "c", "s">>

\* "old bytes"
MarkerBytes ==
    <<"o", "l", "d", " ", "b", "y", "t", "e", "s">>

\* "| Benchmark | Old ns/op | New ns/op | Delta |"
HeaderNs ==
    <<"|", " ", "B", "e", "n", "c", "h", "m", "a", "r", "k", " ", "|", " ",
      "O", "l", "d", " ", "n", "s", "/", "o", "p", " ", "|", " ", "N", "e",
      "w", " ", "n", "s", "/", "o", "p", " ", "|", " ", "D", "e", "l", "t",
      "a", " ", "|">>

\* "| Benchmark | Old MB/s | New MB/s | Speedup |"
HeaderMB ==
    <<"|", " ", "B", "e", "n", "c", "h", "m", "a", "r", "k", " ", "|", " ",
      "O", "l", "d", " ", "M", "B", "/", "s", " ", "|", " ", "N", "e", "w",
      " ", "M", "B", "/", "s", " ", "|", " ", "S", "p", "e", "e", "d", "u",
      "p", " ", "|">>

\* "| Benchmark | Old allocs | New allocs | Delta |"
HeaderAllocs ==
    <<"|", " ", "B", "e", "n", "c", "h", "m", "a", "r", "k", " ", "|", " ",
      "O", "l", "d", " ", "a", "l", "l", "o", "c", "s", " ", "|", " ", "N",
      "e", "w", " ", "a", "l", "l", "o", "c", "s", " ", "|", " ", "D", "e",
      "l", "t", "a", " ", "|">>

\* "| Benchmark | Old bytes | New bytes | Delta |"
HeaderBytes ==
    <<"|", " ", "B", "e", "n", "c", "h", "m", "a", "r", "k", " ", "|", " ",
      "O", "l", "d", " ", "b", "y", "t", "e", "s", " ", "|", " ", "N", "e",
      "w", " ", "b", "y", "t", "e", "s", " ", "|", " ", "D", "e", "l", "t",
      "a", " ", "|">>

\* "|-|-|-|-|"
SeparatorRow ==
    <<"|", "-", "|", "-", "|", "-", "|", "-", "|">>

\* ""
LineEmpty ==
    <<>>

\* " \t"
LineSpaces ==
    <<" ", "\t">>

\* "benchmark  old ns/op  new ns/op  delta"
LineHdrNs ==
    <<"b", "e", "n", "c", "h", "m", "a", "r", "k", " ", " ", "o", "l", "d",
      " ", "n", "s", "/", "o", "p", " ", " ", "n", "e", "w", " ", "n", "s",
      "/", "o", "p", " ", " ", "d", "e", "l", "t", "a">>

\* "benchmark old MB/s new MB/s speedup"
LineHdrMB ==
    <<"b", "e", "n", "c", "h", "m", "a", "r", "k", " ", "o", "l", "d", " ",
      "M", "B", "/", "s", " ", "n", "e", "w", " ", "M", "B", "/", "s", " ",
      "s", "p", "e", "e", "d", "u", "p">>

\* "benchmark old allocs new allocs delta"
LineHdrAllocs ==
    <<"b", "e", "n", "c", "h", "m", "a", "r", "k", " ", "o", "l", "d", " ",
      "a", "l", "l", "o", "c", "s", " ", "n", "e", "w", " ", "a", "l", "l",
      "o", "c", "s", " ", "d", "e", "l", "t", "a">>

\* "benchmark old bytes new bytes delta"
LineHdrBytes ==
    <<"b", "e", "n", "c", "h", "m", "a", "r", "k", " ", "o", "l", "d", " ",
      "b", "y", "t", "e", "s", " ", "n", "e", "w", " ", "b", "y", "t", "e",
      "s", " ", "d", "e", "l", "t", "a">>

\* "BenchmarkX  120  60.2  -50.00%"
LineRow ==
    <<"B", "e", "n", "c", "h", "m", "a", "r", "k", "X", " ", " ", "1", "2",
      "0", " ", " ", "6", "0", ".", "2", " ", " ", "-", "5", "0", ".", "0",
      "0", "%">>

\* " a\tb "
LinePadded ==
    <<" ", "a", "\t", "b", " ">>

\* "|-|-|-|-|"
LineSep ==
    <<"|", "-", "|", "-", "|", "-", "|", "-", "|">>

\* "old  ns/op"
LineNear ==
    <<"o", "l", "d", " ", " ", "n", "s", "/", "o", "p">>

\* "x old bytes old ns/op"
LineTwo ==
    <<"x", " ", "o", "l", "d", " ", "b", "y", "t", "e", "s", " ", "o", "l",
      "d", " ", "n", "s", "/", "o", "p">>

\* The lines a raw table is made of: headers of the four metric families,
\* data rows, blank lines, and lines that only resemble a header.
LineSet ==
    {LineEmpty, LineSpaces, LineHdrNs, LineHdrMB, LineHdrAllocs, LineHdrBytes,
     LineRow, LinePadded, LineSep, LineNear, LineTwo}

\* unicode.IsSpace on the characters that occur.
IsSpace(c) == c \in {" ", "\t", "\r", "\n"}

\* strings.Contains(s, substr)
Contains(s, substr) ==
    \E k \in 0..(Len(s) - Len(substr)) : SubSeq(s, k + 1, k + Len(substr)) = substr

\* The k-th smallest element of a set of positions.
Nth(S, k) == CHOOSE p \in S : Cardinality({q \in S : q <= p}) = k

\* strings.Fields(s): the maximal runs of non-space characters, in order.
FieldStarts(s) ==
    {k \in 1..Len(s) : ~IsSpace(s[k]) /\ (k = 1 \/ IsSpace(s[k - 1]))}

FieldEnds(s) ==
    {k \in 1..Len(s) : ~IsSpace(s[k]) /\ (k = Len(s) \/ IsSpace(s[k + 1]))}

FieldsDropLast(s) ==
    [j \in 1..(IF Cardinality(FieldStarts(s)) > 1
               THEN Cardinality(FieldStarts(s)) - 1
               ELSE Cardinality(FieldStarts(s))) |->
        SubSeq(s, Nth(FieldStarts(s), j), Nth(FieldEnds(s), j))]

Fields(s) ==
    [j \in 1..Cardinality(FieldStarts(s)) |->
        SubSeq(s, Nth(FieldStarts(s), j), Nth(FieldEnds(s), j))]

\* strings.Join(elems, sep), sep a string
RECURSIVE Join(_, _)
Join(elems, sep) ==
    IF elems = <<>> THEN <<>>
    ELSE IF Len(elems) = 1 THEN elems[1]
    ELSE elems[1] \o sep \o Join(Tail(elems), sep)

\* strings.Split(s, "\n"): the pieces between newlines, empty ones kept.
Newlines(s) == {k \in 1..Len(s) : s[k] = "\n"}

SplitLines(s) ==
    LET nl == Newlines(s)
        n == Cardinality(nl)
    IN [j \in 1..(n + 1) |->
           SubSeq(s,
                  IF j = 1 THEN 1 ELSE Nth(nl, j - 1) + 1,
                  IF j = n + 1 THEN Len(s) ELSE Nth(nl, j) - 1)]

\* append(tableContent[:i+1], append([]string{row}, tableContent[i+1:]...)...)
\* with the 0-based index i: the row goes in right after element i.
InsertAtEnd(tc, i, row) == Append(tc, row)

InsertBefore(tc, i, row) ==
    SubSeq(tc, 1, i) \o <<row>> \o SubSeq(tc, i + 1, Len(tc))

InsertAfter(tc, i, row) ==
    SubSeq(tc, 1, i + 1) \o <<row>> \o SubSeq(tc, i + 2, Len(tc))

\* The switch of the loop body: which case the line e takes.
LineCaseMissingBytes(e) ==
    IF e = <<>> THEN "blank"
    ELSE IF Contains(e, MarkerNs) THEN "ns"
    ELSE IF Contains(e, MarkerMB) THEN "MB"
    ELSE IF Contains(e, MarkerAllocs) THEN "allocs"
    ELSE "default"

LineCase(e) ==
    IF e = <<>> THEN "blank"
    ELSE IF Contains(e, MarkerNs) THEN "ns"
    ELSE IF Contains(e, MarkerMB) THEN "MB"
    ELSE IF Contains(e, MarkerAllocs) THEN "allocs"
    ELSE IF Contains(e, MarkerBytes) THEN "bytes"
    ELSE "default"

\* The value the loop body assigns to e, and so to tableContent[i].
NewLine(e) ==
    CASE LineCase(e) = "blank"   -> e
      [] LineCase(e) = "ns"      -> HeaderNs
      [] LineCase(e) = "MB"      -> HeaderMB
      [] LineCase(e) = "allocs"  -> HeaderAllocs
      [] LineCase(e) = "bytes"   -> HeaderBytes
      [] LineCase(e) = "default" -> Join(Fields(e), <<"|">>)

\* One iteration of the loop at the 0-based index i.
LoopBody(tc, i) ==
    LET e == tc[i + 1]
        grown == IF LineCase(e) \in {"ns", "MB", "allocs", "bytes"}
                 THEN InsertAfter(tc, i, SeparatorRow)
                 ELSE tc
    IN [grown EXCEPT ![i + 1] = NewLine(e)]

\* for i := 0; i <= len(tableContent)-1; i++ { ... }
RECURSIVE LoopFrom(_, _)
LoopFrom(tc, i) ==
    IF i <= Len(tc) - 1 THEN LoopFrom(LoopBody(tc, i), i + 1) ELSE tc

\* formatCommentToMD(rawTable)
formatCommentToMD(raw) == Join(LoopFrom(SplitLines(raw), 0), <<"\n">>)

\* The raw tables of at most MaxLines lines over LineSet.
Tables == UNION {[1..n -> LineSet] : n \in 1..MaxLines}

RawTables == {Join(t, <<"\n">>) : t \in Tables}

\* What Render can hand to formatCommentToMD: one table, or two tables with
\* the blank line Render puts after each.
RenderOutputs ==
    {Join(<<LineHdrNs, LineRow, LineEmpty>>, <<"\n">>),
     Join(<<LineHdrNs, LineRow, LineEmpty, LineHdrAllocs, LineRow, LineEmpty>>, <<"\n">>)}

\* ------------------------------------------------------- environments
NoClient == [owner |-> "", repo |-> "", prNumber |-> 0, latestCommitHash |-> ""]

NoFields ==
    [benchFunc |-> "", compareTarget |-> "", isRaceEnabled |-> FALSE,
     home |-> "", repo |-> "", logLink |-> <<>>]

NoSide == [benchFunc |-> "", raceArgument |-> "", compareTarget |-> ""]

NoOp == [name |-> "", ret |-> NoError, value |-> ""]

\* return e, err
Return(e, err) ==
    /\ pc' = "returned"
    /\ env' = e
    /\ retErr' = err

\* The comments that reached the pull request.
Comments == SelectSeq(apiCalls, LAMBDA c : c.err = "nil")

\* newLocalEnv(e), were it to check a branch out as newGitHubEnv does
NewLocalEnvCheckingOut ==
    /\ pc = "start"
    /\ \E r \in {"nil", "ErrRepositoryNotExists"}, race \in BOOLEAN :
          IF r # "nil"
          THEN /\ Return("nil", PlainErr(r))
               /\ UNCHANGED <<fields, gitLog, ref>>
          ELSE /\ Return("Local", NoError)
               /\ fields' = [benchFunc |-> "BenchmarkX", compareTarget |-> "master",
                             isRaceEnabled |-> race, home |-> "HOME",
                             repo |-> "opened", logLink |-> <<>>]
               /\ gitLog' = Append(gitLog, [op |-> "checkout", err |-> "nil"])
               /\ ref' = "pullrequest"
    /\ UNCHANGED <<event, side, apiCalls, client, cwd, goenv, stdout, opCount,
                   lastOp, mdVars>>

\* newLocalEnv(e)
NewLocalEnv ==
    /\ pc = "start"
    /\ \E r \in {"nil", "ErrRepositoryNotExists"}, race \in BOOLEAN :
          IF r # "nil"
          THEN /\ Return("nil", PlainErr(r))
               /\ UNCHANGED fields
          ELSE /\ Return("Local", NoError)
               /\ fields' = [benchFunc |-> "BenchmarkX", compareTarget |-> "master",
                             isRaceEnabled |-> race, home |-> "HOME",
                             repo |-> "opened", logLink |-> <<>>]
    /\ UNCHANGED <<event, side, gitLog, apiCalls, client, cwd, goenv, ref, stdout,
                   opCount, lastOp, mdVars>>

\* data, err := ioutil.ReadFile(eventFilePath)
ReadEventFile ==
    /\ pc = "start"
    /\ \E r \in {"nil", "ReadFileErr"} :
          IF r # "nil"
          THEN Return("nil", PlainErr(r))
          ELSE pc' = "parseWebHook" /\ UNCHANGED <<env, retErr>>
    /\ UNCHANGED <<event, side, gitLog, apiCalls, client, fields, cwd, goenv, ref,
                   stdout, opCount, lastOp, mdVars>>

\* event, err := github.ParseWebHook("issue_comment", data)
ParseWebHook ==
    /\ pc = "parseWebHook"
    /\ \E r \in {"IssueCommentEvent", "OtherEvent", "ParseErr"} :
          IF r = "ParseErr"
          THEN Return("nil", PlainErr(r)) /\ UNCHANGED event
          ELSE pc' = "chdirWorkspace" /\ event' = r /\ UNCHANGED <<env, retErr>>
    /\ UNCHANGED <<side, gitLog, apiCalls, client, fields, cwd, goenv, ref, stdout,
                   opCount, lastOp, mdVars>>

\* os.Chdir(os.Getenv("GITHUB_WORKSPACE"))
ChdirWorkspace ==
    /\ pc = "chdirWorkspace"
    /\ \E r \in {"nil", "ChdirErr"} :
          IF r # "nil"
          THEN Return("nil", PlainErr(r)) /\ UNCHANGED cwd
          ELSE pc' = "assertEvent" /\ cwd' = "GITHUB_WORKSPACE"
               /\ UNCHANGED <<env, retErr>>
    /\ UNCHANGED <<event, side, gitLog, apiCalls, client, fields, goenv, ref, stdout,
                   opCount, lastOp, mdVars>>

\* ok of issue, ok := event.(*github.IssueCommentEvent)
EventSupportedAny(ev) == TRUE

EventSupported(ev) == ev = "IssueCommentEvent"

\* issue, ok := event.(*github.IssueCommentEvent); if !ok { return ... }
AssertEvent ==
    /\ pc = "assertEvent"
    /\ IF ~EventSupported(event)
       THEN Return("nil", PlainErr("only issue_comment event is supported"))
       ELSE pc' = "clone" /\ UNCHANGED <<env, retErr>>
    /\ UNCHANGED <<event, side, gitLog, apiCalls, client, fields, cwd, goenv, ref,
                   stdout, opCount, lastOp, mdVars>>

\* if err != nil after git.PlainCloneContext
CloneFailedUnlessExists(err) == err # "nil" /\ err # "ErrRepositoryAlreadyExists"

CloneFailed(err) == err # "nil"

\* r, err := git.PlainCloneContext(...)
Clone ==
    /\ pc = "clone"
    /\ \E r \in CloneResults :
          /\ gitLog' = Append(gitLog, [op |-> "clone", err |-> r])
          /\ IF CloneFailed(r)
             THEN Return("nil", Wrap(r, "git clone"))
             ELSE pc' = "newGitHubClient" /\ UNCHANGED <<env, retErr>>
    /\ UNCHANGED <<event, side, apiCalls, client, fields, cwd, goenv, ref, stdout,
                   opCount, lastOp, mdVars>>

\* ghClient := newGitHubClient(issue)
NewGitHubClient ==
    /\ pc = "newGitHubClient"
    /\ client' = [owner |-> Owner, repo |-> RepoName, prNumber |-> PRNumber,
                  latestCommitHash |-> Sha]
    /\ pc' = "readREGEX"
    /\ UNCHANGED <<env, retErr, event, side, gitLog, apiCalls, fields, cwd, goenv,
                   ref, stdout, opCount, lastOp, mdVars>>

\* benchFunc, err := ioutil.ReadFile("/github/home/commentMonitor/REGEX")
ReadREGEX ==
    /\ pc = "readREGEX"
    /\ \E r \in {"nil", "ReadFileErr"} :
          IF r # "nil"
          THEN Return("nil", PlainErr(r)) /\ UNCHANGED side
          ELSE /\ pc' = "readRACE"
               /\ side' = [side EXCEPT !.benchFunc = "BenchmarkX"]
               /\ UNCHANGED <<env, retErr>>
    /\ UNCHANGED <<event, gitLog, apiCalls, client, fields, cwd, goenv, ref, stdout,
                   opCount, lastOp, mdVars>>

\* raceArgument, err := ioutil.ReadFile("/github/home/commentMonitor/RACE")
ReadRACE ==
    /\ pc = "readRACE"
    /\ \E r \in {"nil", "ReadFileErr"}, data \in RaceArguments :
          IF r # "nil"
          THEN Return("nil", PlainErr(r)) /\ UNCHANGED side
          ELSE /\ pc' = "readBRANCH"
               /\ side' = [side EXCEPT !.raceArgument = data]
               /\ UNCHANGED <<env, retErr>>
    /\ UNCHANGED <<event, gitLog, apiCalls, client, fields, cwd, goenv, ref, stdout,
                   opCount, lastOp, mdVars>>

\* compareTarget, err := ioutil.ReadFile("/github/home/commentMonitor/BRANCH")
ReadBRANCH ==
    /\ pc = "readBRANCH"
    /\ \E r \in {"nil", "ReadFileErr"} :
          IF r # "nil"
          THEN Return("nil", PlainErr(r)) /\ UNCHANGED side
          ELSE /\ pc' = "chdirRepo"
               /\ side' = [side EXCEPT !.compareTarget = "master"]
               /\ UNCHANGED <<env, retErr>>
    /\ UNCHANGED <<event, gitLog, apiCalls, client, fields, cwd, goenv, ref, stdout,
                   opCount, lastOp, mdVars>>

\* os.Chdir(filepath.Join(os.Getenv("GITHUB_WORKSPACE"), ghClient.repo))
ChdirRepo ==
    /\ pc = "chdirRepo"
    /\ \E r \in {"nil", "ChdirErr"} :
          IF r # "nil"
          THEN Return("nil", Wrap(r, "changing to GITHUB_WORKSPACE dir"))
               /\ UNCHANGED cwd
          ELSE pc' = "newGitHub" /\ cwd' = "GITHUB_WORKSPACE/repo"
               /\ UNCHANGED <<env, retErr>>
    /\ UNCHANGED <<event, side, gitLog, apiCalls, client, fields, goenv, ref, stdout,
                   opCount, lastOp, mdVars>>

\* g := &GitHub{...}
NewGitHub ==
    /\ pc = "newGitHub"
    /\ fields' = [benchFunc |-> side.benchFunc,
                  compareTarget |-> side.compareTarget,
                  isRaceEnabled |-> (side.raceArgument # "-no-race"),
                  home |-> "HOME",
                  repo |-> "cloned",
                  logLink |-> <<"Full logs at: https://github.com/", client.owner,
                                client.repo, "commit", client.latestCommitHash,
                                "checks">>]
    /\ pc' = "setenvGO111MODULE"
    /\ UNCHANGED <<env, retErr, event, side, gitLog, apiCalls, client, cwd, goenv,
                   ref, stdout, opCount, lastOp, mdVars>>

\* os.Setenv("GO111MODULE", "on")
SetenvGO111MODULE ==
    /\ pc = "setenvGO111MODULE"
    /\ \E r \in {"nil", "SetenvErr"} :
          IF r # "nil"
          THEN Return("nil", PlainErr(r)) /\ UNCHANGED goenv
          ELSE pc' = "setenvCGO" /\ goenv' = goenv \cup {"GO111MODULE=on"}
               /\ UNCHANGED <<env, retErr>>
    /\ UNCHANGED <<event, side, gitLog, apiCalls, client, fields, cwd, ref, stdout,
                   opCount, lastOp, mdVars>>

\* os.Setenv("CGO_ENABLED", "0")
SetenvCGO ==
    /\ pc = "setenvCGO"
    /\ \E r \in {"nil", "SetenvErr"} :
          IF r # "nil"
          THEN Return("nil", PlainErr(r)) /\ UNCHANGED goenv
          ELSE pc' = "worktree" /\ goenv' = goenv \cup {"CGO_ENABLED=0"}
               /\ UNCHANGED <<env, retErr>>
    /\ UNCHANGED <<event, side, gitLog, apiCalls, client, fields, cwd, ref, stdout,
                   opCount, lastOp, mdVars>>

\* wt, err := g.repo.Worktree()
Worktree ==
    /\ pc = "worktree"
    /\ \E r \in {"nil", "ErrIsBareRepository"} :
          IF r # "nil"
          THEN Return("nil", PlainErr(r))
          ELSE pc' = "fetch" /\ UNCHANGED <<env, retErr>>
    /\ UNCHANGED <<event, side, gitLog, apiCalls, client, fields, cwd, goenv, ref,
                   stdout, opCount, lastOp, mdVars>>

\* c.client.Issues.CreateComment(...) called once with this body; r is its result.
PostCommentRetrying(calls, body, r) ==
    IF r # "nil"
    THEN calls \o <<[body |-> body, err |-> r], [body |-> body, err |-> r]>>
    ELSE Append(calls, [body |-> body, err |-> r])

PostComment(calls, body, r) == Append(calls, [body |-> body, err |-> r])

\* fmt.Sprintf("%v. Logs: %v", err, g.logLink)
ErrCommentBody(text) == <<text, ". Logs: ", fields.logLink>>

\* What GitHub.PostErr returns when postComment returned r.
PostErrResultSwallowed(r) == NoError

PostErrResult(r) == IF r # "nil" THEN Wrap(r, "posting err") ELSE NoError

\* if err != nil && err != git.NoErrAlreadyUpToDate
FetchFailedStrict(err) == err # "nil"

FetchFailed(err) == err # "nil" /\ err # "NoErrAlreadyUpToDate"

\* if err = wt.Checkout(...); err != nil
CheckoutFailedNever(err) == FALSE

CheckoutFailed(err) == err # "nil"

\* What the constructor returns after a failed fetch or checkout, pErr being
\* the result of g.PostErr.
StepFailureOriginalOnly(err, pErr) == PlainErr(err)

StepFailure(err, pErr) ==
    IF pErr # NoError THEN WrapfPosting(err, ErrText(pErr)) ELSE PlainErr(err)

\* r.FetchContext(ctx, &git.FetchOptions{}) and its error branch
Fetch ==
    /\ pc = "fetch"
    /\ \E r \in FetchResults, c \in CommentResults :
          /\ gitLog' = Append(gitLog, [op |-> "fetch", err |-> r])
          /\ IF FetchFailed(r)
             THEN /\ apiCalls' = PostComment(apiCalls,
                        ErrCommentBody("Switch (fetch) to a pull request branch failed"), c)
                  /\ Return("nil", StepFailure(r, PostErrResult(c)))
             ELSE /\ pc' = "checkout"
                  /\ UNCHANGED <<env, retErr, apiCalls>>
    /\ UNCHANGED <<event, side, client, fields, cwd, goenv, ref, stdout, opCount,
                   lastOp, mdVars>>

\* wt.Checkout(&git.CheckoutOptions{Branch: "pull/<n>/head:pullrequest"}),
\* its error branch, and return g, nil
Checkout ==
    /\ pc = "checkout"
    /\ \E r \in CheckoutResults, c \in CommentResults :
          /\ gitLog' = Append(gitLog, [op |-> "checkout", err |-> r])
          /\ IF CheckoutFailed(r)
             THEN /\ apiCalls' = PostComment(apiCalls,
                        ErrCommentBody("Switch to a pull request branch failed"), c)
                  /\ Return("nil", StepFailure(r, PostErrResult(c)))
                  /\ UNCHANGED ref
             ELSE /\ Return("GitHub", NoError)
                  /\ ref' = "pullrequest"
                  /\ UNCHANGED apiCalls
    /\ UNCHANGED <<event, side, client, fields, cwd, goenv, stdout, opCount, lastOp,
                   mdVars>>

\* ------------------------------------------- the Environment interface
CanCall(kind) == pc = "returned" /\ env = kind /\ opCount < MaxOps

Called(name, ret, value) ==
    /\ opCount' = opCount + 1
    /\ lastOp' = [name |-> name, ret |-> ret, value |-> value]

\* What Local.PostErr returns.
LocalPostErrResultFailing(text) == PlainErr(text)

LocalPostErrResult(text) == NoError

\* func (l *Local) PostErr(string) error { return nil }
LocalPostErr ==
    /\ CanCall("Local")
    /\ \E text \in ErrTexts : Called("PostErr", LocalPostErrResult(text), text)
    /\ UNCHANGED <<pc, env, retErr, event, side, gitLog, apiCalls, client, fields,
                   cwd, goenv, ref, stdout, mdVars>>

\* func (g *GitHub) PostErr(err string) error
GitHubPostErr ==
    /\ CanCall("GitHub")
    /\ \E text \in ErrTexts, c \in CommentResults :
          /\ apiCalls' = PostComment(apiCalls, ErrCommentBody(text), c)
          /\ Called("PostErr", PostErrResult(c), text)
    /\ UNCHANGED <<pc, env, retErr, event, side, gitLog, client, fields, cwd, goenv,
                   ref, stdout, mdVars>>

\* func (l *Local) PostResults(cmps []BenchCmp) error
LocalPostResults ==
    /\ CanCall("Local")
    /\ \E raw \in RenderOutputs :
          /\ stdout' = stdout \o <<"Results:", raw>>
          /\ Called("PostResults", NoError, "")
    /\ UNCHANGED <<pc, env, retErr, event, side, gitLog, apiCalls, client, fields,
                   cwd, goenv, ref, mdVars>>

\* What GitHub.PostResults returns when postComment returned r.
PostResultsResultSwallowed(r) == NoError

PostResultsResult(r) == PlainErr(r)

\* func (g *GitHub) PostResults(cmps []BenchCmp) error
GitHubPostResults ==
    /\ CanCall("GitHub")
    /\ \E raw \in RenderOutputs, c \in CommentResults :
          /\ apiCalls' = PostComment(apiCalls, formatCommentToMD(raw), c)
          /\ Called("PostResults", PostResultsResult(c), "")
    /\ UNCHANGED <<pc, env, retErr, event, side, gitLog, client, fields, cwd, goenv,
                   ref, stdout, mdVars>>

\* func (l *Local) Repo() and func (g *GitHub) Repo()
Repo ==
    /\ \/ CanCall("Local")
       \/ CanCall("GitHub")
    /\ Called("Repo", NoError, fields.repo)
    /\ UNCHANGED <<pc, env, retErr, event, side, gitLog, apiCalls, client, fields,
                   cwd, goenv, ref, stdout, mdVars>>

\* BenchFunc(), CompareTarget() and IsRaceEnabled() of the embedded environment
Getter ==
    /\ \/ CanCall("Local")
       \/ CanCall("GitHub")
    /\ \E name \in {"BenchFunc", "CompareTarget", "IsRaceEnabled"} :
          Called(name, NoError,
                 CASE name = "BenchFunc" -> fields.benchFunc
                   [] name = "CompareTarget" -> fields.compareTarget
                   [] name = "IsRaceEnabled" ->
                        IF fields.isRaceEnabled THEN "true" ELSE "false")
    /\ UNCHANGED <<pc, env, retErr, event, side, gitLog, apiCalls, client, fields,
                   cwd, goenv, ref, stdout, mdVars>>

\* -------------------------------------------------- formatCommentToMD
\* tableContent := strings.Split(rawTable, "\n"); i := 0
MDSplit ==
    /\ fpc = "split"
    /\ tableContent' = SplitLines(rawTable)
    /\ idx' = 0
    /\ fpc' = "loop"
    /\ UNCHANGED <<rawTable, result, envVars>>

\* one iteration of the for loop, and i++
MDIterate ==
    /\ fpc = "loop"
    /\ idx <= Len(tableContent) - 1
    /\ tableContent' = LoopBody(tableContent, idx)
    /\ idx' = idx + 1
    /\ UNCHANGED <<rawTable, fpc, result, envVars>>

\* return strings.Join(tableContent, "\n")
MDReturn ==
    /\ fpc = "loop"
    /\ ~(idx <= Len(tableContent) - 1)
    /\ result' = Join(tableContent, <<"\n">>)
    /\ fpc' = "done"
    /\ UNCHANGED <<rawTable, tableContent, idx, envVars>>

\* -------------------------------------------------------- specifications
InitEnv ==
    /\ pc = "start"
    /\ env = "nil"
    /\ retErr = NoError
    /\ event = "none"
    /\ side = NoSide
    /\ gitLog = <<>>
    /\ apiCalls = <<>>
    /\ client = NoClient
    /\ fields = NoFields
    /\ cwd = "initial"
    /\ goenv = {}
    /\ ref = "default"
    /\ stdout = <<>>
    /\ opCount = 0
    /\ lastOp = NoOp

Init ==
    /\ InitEnv
    /\ rawTable = <<>>
    /\ tableContent = <<>>
    /\ idx = 0
    /\ fpc = "idle"
    /\ result = <<>>

Next ==
    \/ NewLocalEnv
    \/ ReadEventFile
    \/ ParseWebHook
    \/ ChdirWorkspace
    \/ AssertEvent
    \/ Clone
    \/ NewGitHubClient
    \/ ReadREGEX
    \/ ReadRACE
    \/ ReadBRANCH
    \/ ChdirRepo
    \/ NewGitHub
    \/ SetenvGO111MODULE
    \/ SetenvCGO
    \/ Worktree
    \/ Fetch
    \/ Checkout
    \/ LocalPostErr
    \/ GitHubPostErr
    \/ LocalPostResults
    \/ GitHubPostResults
    \/ Repo
    \/ Getter

Spec == Init /\ [][Next]_vars

InitMD ==
    /\ InitEnv
    /\ rawTable \in RawTables
    /\ tableContent = <<>>
    /\ idx = 0
    /\ fpc = "split"
    /\ result = <<>>

NextMD ==
    \/ MDSplit
    \/ MDIterate
    \/ MDReturn

SpecMD == InitMD /\ [][NextMD]_vars

\* The raw tables the termination of the loop is checked on: at most
\* MaxLines lines, each empty, of white space, a header, a header with two
\* markers, a data row or a row equal to the separator row.
FairLineSet ==
    {LineEmpty, LineSpaces, LineHdrNs, LineHdrBytes, LineRow, LineSep, LineTwo}

RawTablesFair ==
    {Join(t, <<"\n">>) : t \in UNION {[1..n -> FairLineSet] : n \in 1..MaxLines}}

InitMDFair ==
    /\ InitEnv
    /\ rawTable \in RawTablesFair
    /\ tableContent = <<>>
    /\ idx = 0
    /\ fpc = "split"
    /\ result = <<>>

\* The function is sequential code: its next statement is always executed.
SpecMDFair == InitMDFair /\ [][NextMD]_vars /\ WF_vars(NextMD)

\* ------------------------------------------------- environment properties
\* The last clone/fetch/checkout call made.
LastGit == gitLog[Len(gitLog)]

\* The constructor has returned because fetch or checkout failed.
FailedSwitch ==
    /\ pc = "returned"
    /\ gitLog # <<>>
    /\ \/ LastGit.op = "fetch" /\ LastGit.err = "FetchErr"
       \/ LastGit.op = "checkout" /\ LastGit.err = "CheckoutErr"

CloneSaidExists == gitLog # <<>> /\ gitLog[1].err = "ErrRepositoryAlreadyExists"

\* C1, as stated: when the clone step reports that the repository already
\* exists, construction does not fail at the clone step and goes on to the
\* client build.
C1_AlreadyExistsIsSuccess ==
    CloneSaidExists => pc # "returned" \/ Len(gitLog) > 1 \/ retErr = NoError

\* C1, amended: when the clone step reports that the repository already
\* exists, construction fails at the clone step: no environment is returned,
\* the returned error is that error wrapped with "git clone", and no client
\* build, side-channel read, fetch, checkout or comment post is attempted.
C1_AlreadyExistsFails ==
    CloneSaidExists =>
        /\ pc = "returned"
        /\ env = "nil"
        /\ retErr = [wrap |-> "git clone", cause |-> "ErrRepositoryAlreadyExists",
                     pErr |-> "nil"]
        /\ Len(gitLog) = 1
        /\ client = NoClient
        /\ side = NoSide
        /\ apiCalls = <<>>

C1_Witness == CloneSaidExists /\ pc = "returned"

FetchSaidUpToDate ==
    Len(gitLog) >= 2 /\ gitLog[2] = [op |-> "fetch", err |-> "NoErrAlreadyUpToDate"]

\* C2: a fetch that returns "already up to date" is a success: right after
\* it no comment has been posted, no error has been returned and checkout is
\* the next step; whatever follows, checkout is attempted and the fetch
\* result is never the returned error.
C2_UpToDateIsSuccess ==
    FetchSaidUpToDate =>
        /\ retErr.cause # "NoErrAlreadyUpToDate"
        /\ \/ /\ Len(gitLog) = 2
              /\ pc = "checkout"
              /\ apiCalls = <<>>
              /\ retErr = NoError
           \/ /\ Len(gitLog) = 3
              /\ gitLog[3].op = "checkout"
              /\ (gitLog[3].err = "nil" => env = "GitHub" /\ retErr = NoError)

C2_Witness == FetchSaidUpToDate /\ Len(gitLog) = 3 /\ env = "GitHub"

\* C3: when fetch or checkout fails (fetch "already up to date" apart),
\* PostErr has been invoked once when the constructor returns, no
\* environment is returned, and the returned error is the original error
\* when the comment was posted, or the original error combined with the
\* posting error when posting failed too.
C3_FailedSwitchPostsAndReturns ==
    FailedSwitch =>
        /\ env = "nil"
        /\ Len(apiCalls) = 1
        /\ apiCalls[1].body[1] =
             (IF LastGit.op = "fetch"
              THEN "Switch (fetch) to a pull request branch failed"
              ELSE "Switch to a pull request branch failed")
        /\ retErr.cause = LastGit.err
        /\ IF apiCalls[1].err = "nil"
           THEN retErr = [wrap |-> "", cause |-> LastGit.err, pErr |-> "nil"]
           ELSE /\ retErr.wrap # ""
                /\ retErr.pErr = <<"posting err", apiCalls[1].err>>

C3_Witness ==
    FailedSwitch /\ LastGit.op = "checkout" /\ apiCalls[1].err = "CreateCommentErr"

\* The clone/fetch/checkout calls made so far, by name.
GitOps == [k \in 1..Len(gitLog) |-> gitLog[k].op]

\* C4: clone, fetch and checkout are attempted in this order, each only
\* after the one before succeeded; a GitHub environment is returned only
\* when all three succeeded; a failed construction returns no environment
\* and attempts nothing further.
C4_ConstructionOrder ==
    /\ [](/\ GitOps = SubSeq(<<"clone", "fetch", "checkout">>, 1, Len(gitLog))
          /\ (Len(gitLog) >= 2 => gitLog[1].err = "nil")
          /\ (Len(gitLog) >= 3 => gitLog[2].err \in {"nil", "NoErrAlreadyUpToDate"})
          /\ (env = "GitHub" =>
                /\ Len(gitLog) = 3
                /\ gitLog[3].err = "nil"
                /\ pc = "returned"
                /\ retErr = NoError)
          /\ (retErr # NoError => pc = "returned" /\ env = "nil"))
    /\ [][retErr # NoError => UNCHANGED <<gitLog, apiCalls, env, retErr, pc>>]_vars

C4_Witness == env = "GitHub" /\ GitOps = <<"clone", "fetch", "checkout">>

\* The constructor has returned an error after a successful clone.
FailedAfterClone ==
    /\ pc = "returned"
    /\ retErr # NoError
    /\ gitLog # <<>>
    /\ gitLog[1].err = "nil"

\* C5, as stated: every failure of a step after cloning has completed
\* attempts exactly one error comment, a failure during cloning none, and
\* no run attempts more than one comment during construction.
C5_EveryLaterFailureComments ==
    /\ (FailedAfterClone => Len(apiCalls) = 1)
    /\ (pc = "returned" /\ retErr # NoError /\ ~FailedAfterClone => apiCalls = <<>>)
    /\ (opCount = 0 => Len(apiCalls) <= 1)

\* C5, amended: a failure of fetch or of checkout attempts exactly one error
\* comment before the constructor returns; a failure of any other step (the
\* event read and parse, cloning, the side-channel file reads, the change of
\* directory, the environment setup, the worktree lookup) attempts none; no
\* run attempts more than one comment during construction.
C5_OnlySwitchFailureComments ==
    /\ (pc = "returned" /\ retErr # NoError =>
            Len(apiCalls) = (IF FailedSwitch THEN 1 ELSE 0))
    /\ (pc # "returned" => apiCalls = <<>>)
    /\ (opCount = 0 => Len(apiCalls) <= 1)

C5_Witness ==
    FailedSwitch /\ LastGit.op = "fetch" /\ Len(apiCalls) = 1 /\ retErr # NoError

UnsupportedEvent ==
    [wrap |-> "", cause |-> "only issue_comment event is supported", pErr |-> "nil"]

\* C6, as stated: when the inbound event is not an issue-comment event,
\* construction fails with UnsupportedEvent and attempts no clone, fetch,
\* checkout or comment post.
C6_OtherEventIsUnsupported ==
    event = "OtherEvent" /\ pc = "returned" =>
        /\ retErr = UnsupportedEvent
        /\ env = "nil"
        /\ gitLog = <<>>
        /\ apiCalls = <<>>

\* C6, amended: when the inbound event is not an issue-comment event,
\* construction fails without a clone, fetch, checkout or comment post: with
\* UnsupportedEvent when the change into the workspace root succeeded, and
\* with the error of that change when it failed, because the directory is
\* changed before the event type is looked at.
C6_OtherEventFails ==
    event = "OtherEvent" =>
        /\ gitLog = <<>>
        /\ apiCalls = <<>>
        /\ env = "nil"
        /\ pc \in {"chdirWorkspace", "assertEvent", "returned"}
        /\ (pc = "returned" =>
              retErr = (IF cwd = "GITHUB_WORKSPACE"
                        THEN UnsupportedEvent
                        ELSE [wrap |-> "", cause |-> "ChdirErr", pErr |-> "nil"]))

C6_Witness == event = "OtherEvent" /\ pc = "returned" /\ retErr = UnsupportedEvent

\* C10: a PostErr call on a Local environment, whatever the error text and
\* whatever was called before, returns no error, posts no comment and
\* leaves the environment, the repository and the process state as they
\* were.
C10_LocalPostErrIsNoop ==
    [][(env = "Local" /\ opCount' = opCount + 1 /\ lastOp'.name = "PostErr") =>
          /\ lastOp'.ret = NoError
          /\ UNCHANGED <<pc, env, retErr, gitLog, apiCalls, client, fields, cwd,
                         goenv, ref, stdout>>]_vars

C10_Witness ==
    /\ env = "Local"
    /\ lastOp.name = "PostErr"
    /\ lastOp.ret = NoError
    /\ opCount >= 2
    /\ stdout # <<>>

\* --------------------------------------------- formatCommentToMD properties
Markers == {MarkerNs, MarkerMB, MarkerAllocs, MarkerBytes}

HasMarker(e) == \E m \in Markers : Contains(e, m)

\* The four-column header of a metric family.
HeaderOf(m) ==
    CASE m = MarkerNs     -> HeaderNs
      [] m = MarkerMB     -> HeaderMB
      [] m = MarkerAllocs -> HeaderAllocs
      [] m = MarkerBytes  -> HeaderBytes

\* The lines of the argument and of the returned string.
InLines == SplitLines(rawTable)

OutLines == SplitLines(result)

\* The input lines that are headers.
HeaderRows == {k \in 1..Len(InLines) : HasMarker(InLines[k])}

\* Where input line k is in the output: one row further down for every
\* header above it.
OutIndex(k) == k + Cardinality({j \in HeaderRows : j < k})

\* A line with nothing but white space in it, and one with nothing in it.
IsBlank(e) == \A k \in 1..Len(e) : IsSpace(e[k])

NonBlankCount(ls) == Cardinality({k \in 1..Len(ls) : ~IsBlank(ls[k])})

NonEmptyCount(ls) == Cardinality({k \in 1..Len(ls) : ls[k] # <<>>})

\* C7: for a table with one header line, the output has one more line than
\* the input, the header is translated to the four-column header of a family
\* whose marker it contains, the separator row is directly below it, and
\* the output has one more non-blank line than the input (counting lines of
\* white space as blank; counting only empty lines as blank, the same holds
\* of a table without lines of white space, as Render's tables are).
C7_OneSeparatorBelowHeader ==
    fpc = "done" /\ Cardinality(HeaderRows) = 1 =>
        LET h == CHOOSE k \in HeaderRows : TRUE
        IN /\ Len(OutLines) = Len(InLines) + 1
           /\ \E m \in Markers :
                 Contains(InLines[h], m) /\ OutLines[h] = HeaderOf(m)
           /\ OutLines[h + 1] = SeparatorRow
           /\ NonBlankCount(OutLines) = NonBlankCount(InLines) + 1
           /\ ((\A k \in 1..Len(InLines) : IsBlank(InLines[k]) => InLines[k] = <<>>)
                 => NonEmptyCount(OutLines) = NonEmptyCount(InLines) + 1)

C7_Witness ==
    /\ fpc = "done"
    /\ InLines = <<LineRow, LineHdrBytes, LineRow>>
    /\ OutLines[2] = HeaderBytes
    /\ OutLines[3] = SeparatorRow
    /\ Len(OutLines) = 4

\* The non-space positions of a line.
NonSpace(e) == {p \in 1..Len(e) : ~IsSpace(e[p])}

\* Where the character at non-space position p of e goes when the fields of
\* e are joined by single pipes: after the non-space characters before it
\* and one pipe for every field that ended before it.
JoinedPos(e, p) ==
    Cardinality({q \in NonSpace(e) : q <= p})
    + Cardinality({q \in NonSpace(e) : q < p /\ IsSpace(e[q + 1])})

\* o is the fields of e joined by single pipes, in their order.
PipeJoined(e, o) ==
    LET ns == NonSpace(e)
        at == {JoinedPos(e, p) : p \in ns}
    IN /\ Len(o) = Cardinality(at) + Cardinality({q \in ns : \E p \in ns : q < p /\ IsSpace(e[q + 1])})
       /\ \A p \in ns : o[JoinedPos(e, p)] = e[p]
       /\ \A j \in 1..Len(o) : j \notin at => o[j] = "|"

\* C8: every non-empty input line without a marker comes out as its
\* white-space separated fields joined by single pipes, in their order.
C8_FieldsPipeJoined ==
    fpc = "done" =>
        \A k \in 1..Len(InLines) :
            (InLines[k] # <<>> /\ ~HasMarker(InLines[k])) =>
                /\ OutIndex(k) <= Len(OutLines)
                /\ PipeJoined(InLines[k], OutLines[OutIndex(k)])

C8_Witness ==
    /\ fpc = "done"
    /\ Len(InLines) = 3
    /\ HasMarker(InLines[1])
    /\ InLines[2] = LinePadded
    /\ InLines[3] = LineRow
    /\ OutLines[3] = <<"a", "|", "b">>
    /\ Len(Fields(OutLines[4])) = 1

\* C9: with the separator rows below the headers taken out, the output has
\* as many lines as the input and its k-th line is the transform of the
\* k-th input line; an empty input line is an empty output line at the same
\* place.
C9_LineOrderPreserved ==
    fpc = "done" =>
        /\ Len(OutLines) = Len(InLines) + Cardinality(HeaderRows)
        /\ \A k \in 1..Len(InLines) :
              /\ OutLines[OutIndex(k)] = NewLine(InLines[k])
              /\ (InLines[k] = <<>> => OutLines[OutIndex(k)] = <<>>)
              /\ (k \in HeaderRows => OutLines[OutIndex(k) + 1] = SeparatorRow)

C9_Witness ==
    /\ fpc = "done"
    /\ InLines = <<LineHdrMB, LineEmpty, LineHdrNs>>
    /\ OutLines = <<HeaderMB, SeparatorRow, LineEmpty, HeaderNs, SeparatorRow>>

\* C11: a PostResults call on a Local environment returns no error and makes
\* no create-comment call; a PostResults call on a GitHub environment makes
\* exactly one create-comment call and returns that call's result, a failure
\* included, without a second call.
C11_PostResultsCalls ==
    [][(opCount' = opCount + 1 /\ lastOp'.name = "PostResults") =>
          IF env = "Local"
          THEN /\ lastOp'.ret = NoError
               /\ apiCalls' = apiCalls
          ELSE /\ env = "GitHub"
               /\ Len(apiCalls') = Len(apiCalls) + 1
               /\ SubSeq(apiCalls', 1, Len(apiCalls)) = apiCalls
               /\ lastOp'.ret.cause = apiCalls'[Len(apiCalls')].err
               /\ (lastOp'.ret = NoError <=> apiCalls'[Len(apiCalls')].err = "nil")]_vars

C11_Witness ==
    /\ env = "GitHub"
    /\ lastOp.name = "PostResults"
    /\ lastOp.ret.cause = "CreateCommentErr"
    /\ opCount = 1
    /\ Len(apiCalls) = 1

\* The checkout calls made so far.
CheckoutCalls == Cardinality({k \in 1..Len(gitLog) : gitLog[k].op = "checkout"})

\* C12: checkout is invoked at most once in a run, and exactly once in a
\* run that returned a GitHub environment; the ref changes only in the
\* checkout step of newGitHubEnv that returns the environment; newLocalEnv
\* and the methods of a constructed environment (PostErr, PostResults,
\* Repo, the getters) neither invoke checkout nor change the ref.
C12_RefSwitchedOnceInConstruction ==
    /\ [](/\ CheckoutCalls <= 1
          /\ (env = "GitHub" => CheckoutCalls = 1 /\ ref = "pullrequest")
          /\ (env # "GitHub" => ref = "default")
          /\ (env = "Local" => CheckoutCalls = 0))
    /\ [][ref' # ref => pc = "checkout" /\ env' = "GitHub"]_vars
    /\ [][opCount' # opCount => UNCHANGED <<ref, gitLog>>]_vars

C12_Witness ==
    /\ env = "GitHub"
    /\ ref = "pullrequest"
    /\ CheckoutCalls = 1
    /\ opCount >= 2
    /\ lastOp.name = "PostResults"

\* The lines the loop has still to visit, counting a header twice: once for
\* itself and once for the row it will insert.
Remaining ==
    (Len(tableContent) - idx)
    + Cardinality({k \in (idx + 1)..Len(tableContent) : HasMarker(tableContent[k])})

\* C13: formatCommentToMD returns on every input: every iteration leaves
\* less to visit, although a header iteration lengthens the slice; an
\* iteration on a separator row inserts nothing and leaves the slice as it
\* is; at the return every line has been visited once and the rows
\* inserted, each below its header, are as many as the input lines with a
\* marker.
C13_TerminatesOneRowPerHeader ==
    /\ <>(fpc = "done")
    /\ [][fpc = "loop" /\ fpc' = "loop" =>
            Remaining' < Remaining /\ Remaining' >= 0]_vars
    /\ [][(fpc = "loop" /\ idx' = idx + 1 /\ tableContent[idx + 1] = SeparatorRow) =>
            tableContent' = tableContent]_vars
    /\ [](fpc = "done" =>
            /\ Len(OutLines) - Len(InLines) = Cardinality(HeaderRows)
            /\ idx = Len(OutLines)
            /\ \A k \in HeaderRows : OutLines[OutIndex(k) + 1] = SeparatorRow)

C13_Witness ==
    /\ fpc = "done"
    /\ InLines = <<LineHdrNs, LineSep, LineHdrBytes>>
    /\ OutLines = <<HeaderNs, SeparatorRow, SeparatorRow, HeaderBytes, SeparatorRow>>
    /\ idx = 5

====
